---- MODULE Spec2Model ----
(***************************************************************************)
(* Model of neon/callbacks/callbacks.py: the Callbacks dispatcher, the     *)
(* shared callback_data store and its file, and the callbacks (train cost, *)
(* loss, checkpoint rotation, best state, early stop, histograms, progress *)
(* bar and logger at epoch end).                                           *)
(***************************************************************************)
EXTENDS Integers, Sequences, FiniteSets, TLC

VARIABLES
    pc,                \* position of the training loop that drives the hooks
    cur_epoch,         \* epoch index the loop is at
    cur_mb,            \* minibatch index the loop is at inside the epoch
    cfg,               \* constructor arguments and environment of this run
    callbacks,         \* Callbacks.callbacks: ordered list of callbacks
    callback_data,     \* the h5py store shared by the callbacks
    obs,               \* private attributes of the callback objects
    model,             \* the model collaborator (finished flag)
    disk,              \* checkpoint files present on the filesystem
    epoch_marker,      \* Callbacks.epoch_marker
    epoch_minibatches, \* Callbacks.epoch_minibatches (Unset until assigned)
    g,                 \* history of the run (what was called, with what)
    sf                 \* should_fire harness: arguments and result

vars == <<pc, cur_epoch, cur_mb, cfg, callbacks, callback_data, obs, model,
          disk, epoch_marker, epoch_minibatches, g, sf>>

----------------------------------------------------------------------------
\* Bounds of the model: epochs of a run and minibatches of an epoch, the
\* values the constructor arguments and the collaborators' results range over.

MaxEpochs == 3
MaxMB == 2
MaxCkptEpochs == 5
MaxHistory == 3
MaxSerialize == 2
MaxEvalFreq == 3
MaxLossEpochs == 3
MaxCostEpochs == 2
MaxWsz == 3
MaxTick == 5
MaxFreq == 3
MaxListTick == 3
MaxConstructEpochs == 2
MaxLookupEpochs == 5
MaxFlushEpochs == 2
MaxFlushFreq == 2
MaxHistEpochs == 2
MaxHistFreq == 1
MaxNdata == 3
MaxBsz == 3
MaxBeginEpochs == 2
MaxBeginFreq == 1
MaxStopEpochs == 4
MaxStopFreq == 2
MaxConstructFreq == 2
MaxWholeNdata == 3
MaxWholeBsz == 2
MaxWholeEpochs == 2

----------------------------------------------------------------------------
\* Python values.

\* The costs model.cost.cost.get() returns and the losses an evaluation yields.
CostValues == {1, 2}
LossValues == {1, 2}

None == -1
Unset == -2
BarePath == -1
DefaultWsz == 10

\* An unwritten slot of an h5py dataset reads as the fill value 0.
Unwritten == <<0, 0>>
Val(n) == <<n, 1>>
IsWritten(x) == x[2] # 0
\* Equality of two stored floats, kept as exact fractions <<num, den>>.
SameValue(x, y) == x[2] # 0 /\ y[2] # 0 /\ x[1] * y[2] = y[1] * x[2]
\* A stored value is less than another one.
LessValue(x, y) == x[1] * y[2] < y[1] * x[2]
Read(x) == IF x[2] = 0 THEN <<0, 1>> ELSE x

Min(a, b) == IF a < b THEN a ELSE b

RECURSIVE Sum(_)
Sum(s) == IF s = <<>> THEN 0 ELSE Head(s) + Sum(Tail(s))

\* The last n elements of s.
LastN(s, n) == IF Len(s) <= n THEN s ELSE SubSeq(s, Len(s) - n + 1, Len(s))

\* Python's a % b: the result takes the sign of the divisor b (b # 0).
PyMod(a, b) == IF b > 0 THEN a % b ELSE -((-a) % (-b))

\* Python 2's a / b on ints (floor division), for a >= 0 and b > 0.
PyDiv(a, b) == a \div b

\* The quotient is rounded down (a plausible slip).
CeilDiv_floor(a, b) == a \div b

\* -((-a) // b) for b > 0.
CeilDiv(a, b) == -((-a) \div b)

\* Frequency specs: an int, a list of times, or None.
IntFreq(n) == [type |-> "int", n |-> n, ticks |-> {}]
ListFreq(S) == [type |-> "list", n |-> 0, ticks |-> S]
NoneFreq == [type |-> "none", n |-> 0, ticks |-> {}]

\* Callback.should_fire raises ZeroDivisionError on the int 0.
should_fire_raises(t, f) == f.type = "int" /\ f.n = 0

\* The time itself, not time + 1, is tested against the frequency (a
\* plausible slip).
should_fire_at_multiples(t, f) ==
    \/ (f.type = "int" /\ f.n # 0 /\ PyMod(t, f.n) = 0)
    \/ (f.type = "list" /\ t \in f.ticks)

\* Callback.should_fire, where it returns.
should_fire(t, f) ==
    \/ (f.type = "int" /\ f.n # 0 /\ PyMod(t + 1, f.n) = 0)
    \/ (f.type = "list" /\ t \in f.ticks)

----------------------------------------------------------------------------
\* Callback objects: their kind and the two frequencies of Callback.__init__.

Callback(kind, ef, mf) == [kind |-> kind, epoch_freq |-> ef, minibatch_freq |-> mf]

TrainCostCallback == Callback("TrainCost", IntFreq(1), IntFreq(1))
ProgressBarCallback == Callback("ProgressBar", IntFreq(1), IntFreq(1))
LossCallback(f) == Callback("Loss", IntFreq(f), IntFreq(1))
\* The metric callback is built as a loss callback (a plausible slip).
MetricCallback_writing_loss(f) == Callback("Loss", IntFreq(f), IntFreq(1))

MetricCallback(f) == Callback("Metric", IntFreq(f), IntFreq(1))
SerializeModelCallback(sched) == Callback("Serialize", ListFreq(sched), IntFreq(1))
TrainLoggerCallback == Callback("TrainLogger", IntFreq(1), NoneFreq)
SaveBestStateCallback == Callback("SaveBest", IntFreq(1), IntFreq(1))
EarlyStopCallback == Callback("EarlyStop", IntFreq(1), IntFreq(1))
HistCallback == Callback("Hist", IntFreq(1), IntFreq(1))

\* The insert position is ignored and the callback appended (a plausible slip).
add_callback_append(cbs, c, insert_pos) == Append(cbs, c)

\* Callbacks.add_callback: append, or insert at position insert_pos (0-based).
add_callback(cbs, c, insert_pos) ==
    IF insert_pos = None THEN Append(cbs, c)
    ELSE SubSeq(cbs, 1, insert_pos) \o <<c>> \o SubSeq(cbs, insert_pos + 1, Len(cbs))

\* The schedule holds the epochs that end a multiple of the interval, as an
\* integer frequency would (a plausible slip).
checkpoint_schedule_at_multiples(c) ==
    LET serialize_interval == IF c.serialize > 1 THEN c.serialize ELSE 1
    IN  {e \in 0..(c.epochs - 1) : (e + 1) % serialize_interval = 0}

\* range(0, epochs, serialize_interval)
checkpoint_schedule(c) ==
    LET serialize_interval == IF c.serialize > 1 THEN c.serialize ELSE 1
    IN  {e \in 0..(c.epochs - 1) : e % serialize_interval = 0}

\* The checkpoint schedule is not tested (a plausible slip).
ConstructRaises_eval_only(c) == c.eval_freq # 0 /\ ~c.eval_set

\* Callbacks.__init__ raises ValueError.
ConstructRaises(c) ==
    \/ (c.eval_freq # 0 /\ ~c.eval_set)
    \/ (c.save_path /\ c.epochs # None /\ checkpoint_schedule(c) = {})

\* Callbacks.__init__ raises TypeError: range(0, None, serialize_interval),
\* when a save path comes without an epoch count (epochs=None, the default).
ConstructTypeError(c) ==
    /\ ~(c.eval_freq # 0 /\ ~c.eval_set)
    /\ c.save_path
    /\ c.epochs = None

\* The logger is registered before the checkpoint writer (a plausible slip).
Construct_logger_before_checkpoint(c) ==
    LET c1 == add_callback(<<>>, TrainCostCallback, None)
        c2 == IF c.progress_bar THEN add_callback(c1, ProgressBarCallback, None) ELSE c1
        c3 == IF c.eval_freq # 0
              THEN IF c.metric THEN add_callback(c2, MetricCallback(c.eval_freq), None)
                   ELSE add_callback(c2, LossCallback(c.eval_freq), 0)
              ELSE c2
        c4 == add_callback(c3, TrainLoggerCallback, None)
    IN  IF c.save_path
        THEN add_callback(c4, SerializeModelCallback(checkpoint_schedule(c)), None)
        ELSE c4

\* Callbacks.__init__: the default callbacks, in order.
Construct(c) ==
    LET c1 == add_callback(<<>>, TrainCostCallback, None)
        c2 == IF c.progress_bar THEN add_callback(c1, ProgressBarCallback, None) ELSE c1
        c3 == IF c.eval_freq # 0
              THEN IF c.metric THEN add_callback(c2, MetricCallback(c.eval_freq), None)
                   ELSE add_callback(c2, LossCallback(c.eval_freq), 0)
              ELSE c2
        c4 == IF c.save_path
              THEN add_callback(c3, SerializeModelCallback(checkpoint_schedule(c)), None)
              ELSE c3
    IN  add_callback(c4, TrainLoggerCallback, None)

HasKind(cbs, k) == \E i \in 1..Len(cbs) : cbs[i].kind = k

----------------------------------------------------------------------------
\* The store right after h5py.File(...): no group, no dataset, no attribute.

EmptyStore ==
    [config |-> FALSE, total_minibatches |-> None, total_epochs |-> None,
     time_markers |-> FALSE, minibatch |-> <<>>,
     epochs_complete |-> None, minibatches_complete |-> None,
     has_cost_train |-> FALSE, cost_train |-> <<>>,
     has_cost_loss |-> FALSE, cost_loss |-> <<>>, time_loss |-> <<>>,
     epoch_freq |-> None,
     hist |-> FALSE, hist_time_steps |-> None, hist_per_mini |-> FALSE,
     has_hist_W |-> FALSE, hist_W |-> <<>>,
     closed |-> FALSE]

\* create_dataset(name, (n,)): n slots holding the fill value.
create_dataset(n) == [i \in 1..n |-> Unwritten]

\* Callback._get_cached_epoch_loss(epoch, 'loss'): None (avail = FALSE) or the
\* cost and time stored at slot epoch / eval_freq.  It reads the store only.
NoLoss == [avail |-> FALSE, cost |-> Unwritten, time |-> Unwritten]

\* The boundary test takes the epoch, not epoch + 1 (a plausible slip).
get_cached_epoch_loss_at_multiples(cd, epoch) ==
    IF ~cd.has_cost_loss \/ PyDiv(epoch, cd.epoch_freq) >= Len(cd.cost_loss) THEN NoLoss
    ELSE IF PyMod(epoch, cd.epoch_freq) = 0
         THEN [avail |-> TRUE,
               cost |-> Read(cd.cost_loss[PyDiv(epoch, cd.epoch_freq) + 1]),
               time |-> Read(cd.time_loss[PyDiv(epoch, cd.epoch_freq) + 1])]
         ELSE NoLoss

get_cached_epoch_loss(cd, epoch) ==
    IF ~cd.has_cost_loss THEN NoLoss
    ELSE IF PyMod(epoch + 1, cd.epoch_freq) = 0
         THEN [avail |-> TRUE,
               cost |-> Read(cd.cost_loss[PyDiv(epoch, cd.epoch_freq) + 1]),
               time |-> Read(cd.time_loss[PyDiv(epoch, cd.epoch_freq) + 1])]
         ELSE NoLoss

----------------------------------------------------------------------------
\* Hooks.  A hook maps the world w = [cd, obs, model, disk, g, raised] to the
\* world after it; ev is the event (name, epoch, minibatch, epochs) and inp
\* what the collaborators return during the hook.

Raise(w) == [w EXCEPT !.raised = TRUE]

\* TrainCostCallback.on_train_begin
TrainCost_on_train_begin(w, ev, inp) ==
    LET points == w.cd.total_minibatches
    IN  [w EXCEPT !.cd.has_cost_train = TRUE,
                  !.cd.cost_train = create_dataset(points),
                  !.obs.wsz = Min(points, w.obs.wsz),
                  !.obs.cost_history = <<>>]

\* The window forgets its costs when an epoch starts (a plausible slip).
TrainCost_window_reset(hist, cost, wsz, minibatch) ==
    IF minibatch = 0 THEN LastN(<<cost>>, wsz) ELSE LastN(Append(hist, cost), wsz)

\* deque([], maxlen=wsz).append(cost)
TrainCost_window(hist, cost, wsz, minibatch) == LastN(Append(hist, cost), wsz)

\* mbstart of TrainCostCallback / ProgressBarCallback / TrainLoggerCallback
\* The marker of the running epoch is read, not that of the epoch before
\* (a plausible slip: [epoch] for [epoch-1]).
mbstart_of_running_epoch(cd, epoch) == IF epoch > 0 THEN Read(cd.minibatch[epoch + 1])[1] ELSE 0

mbstart(cd, epoch) == IF epoch > 0 THEN Read(cd.minibatch[epoch])[1] ELSE 0

\* TrainCostCallback.on_minibatch_end
TrainCost_on_minibatch_end(w, ev, inp) ==
    LET hist == TrainCost_window(w.obs.cost_history, inp.cost, w.obs.wsz, ev.minibatch)
        w1 == [w EXCEPT !.obs.cost_history = hist,
                        !.g.all_costs = Append(w.g.all_costs, inp.cost)]
        tick == mbstart(w.cd, ev.epoch) + ev.minibatch
    IN  IF Len(hist) = 0 THEN Raise(w1)
        ELSE IF tick >= Len(w.cd.cost_train) THEN Raise(w1)
        ELSE [w1 EXCEPT !.cd.cost_train[tick + 1] = <<Sum(hist), Len(hist)>>,
                        !.g.ticks = Append(w.g.ticks, tick)]

\* The series gets one slot too many when epochs is no multiple of epoch_freq.
Loss_length_ceil(epochs, epoch_freq) == CeilDiv(epochs, epoch_freq)

\* epochs/self.epoch_freq in LossCallback.on_train_begin
Loss_length(epochs, epoch_freq) == PyDiv(epochs, epoch_freq)

\* LossCallback.on_train_begin
Loss_on_train_begin(w, ev, inp) ==
    [w EXCEPT !.cd.has_cost_loss = TRUE,
              !.cd.cost_loss = create_dataset(Loss_length(ev.epochs, inp.self.epoch_freq.n)),
              !.cd.time_loss = create_dataset(Loss_length(ev.epochs, inp.self.epoch_freq.n)),
              !.cd.epoch_freq = inp.self.epoch_freq.n]

\* LossCallback.on_epoch_end: the evaluation, then the two writes.
Loss_on_epoch_end(w, ev, inp) ==
    LET slot == PyDiv(ev.epoch, inp.self.epoch_freq.n)
        w1 == [w EXCEPT !.g.evals = w.g.evals + 1]
    IN  IF slot >= Len(w.cd.time_loss) THEN Raise(w1)
        ELSE [w1 EXCEPT !.cd.time_loss[slot + 1] = Val(inp.time),
                        !.cd.cost_loss[slot + 1] = Val(inp.loss)]

\* len(self.checkpoint_files) > self.history
Serialize_must_prune(checkpoint_files, history) == Len(checkpoint_files) > history

\* The oldest name leaves the queue only when its file was deleted (a
\* plausible slip).
save_history_keep_on_failure(w, ev, inp) ==
    LET prune == Serialize_must_prune(w.obs.checkpoint_files, w.obs.history)
        fn == Head(w.obs.checkpoint_files)
        removed == prune /\ inp.rm_ok /\ fn \in w.disk
        files1 == IF removed THEN Tail(w.obs.checkpoint_files) ELSE w.obs.checkpoint_files
        disk1 == IF removed THEN w.disk \ {fn} ELSE w.disk
        save_path == ev.epoch
    IN  [w EXCEPT !.obs.checkpoint_files = Append(files1, save_path),
                  !.disk = disk1 \cup {save_path},
                  !.g.firings = Append(w.g.firings, ev.epoch),
                  !.g.evicted = IF removed THEN Append(w.g.evicted, fn) ELSE w.g.evicted,
                  !.g.rm_failed = w.g.rm_failed \/ (prune /\ ~removed)]

\* SerializeModelCallback.save_history
save_history(w, ev, inp) ==
    LET prune == Serialize_must_prune(w.obs.checkpoint_files, w.obs.history)
        fn == Head(w.obs.checkpoint_files)
        files1 == IF prune THEN Tail(w.obs.checkpoint_files) ELSE w.obs.checkpoint_files
        removed == prune /\ inp.rm_ok /\ fn \in w.disk
        disk1 == IF removed THEN w.disk \ {fn} ELSE w.disk
        save_path == ev.epoch
    IN  [w EXCEPT !.obs.checkpoint_files = Append(files1, save_path),
                  !.disk = disk1 \cup {save_path},
                  !.g.firings = Append(w.g.firings, ev.epoch),
                  !.g.evicted = IF prune THEN Append(w.g.evicted, fn) ELSE w.g.evicted,
                  !.g.rm_failed = w.g.rm_failed \/ (prune /\ ~removed)]

\* A history of 1 rotates as well (a plausible slip).
Serialize_on_epoch_end_rotating(w, ev, inp) ==
    IF w.obs.history >= 1 THEN save_history(w, ev, inp)
    ELSE [w EXCEPT !.disk = w.disk \cup {BarePath},
                   !.g.firings = Append(w.g.firings, ev.epoch)]

\* SerializeModelCallback.on_epoch_end
Serialize_on_epoch_end(w, ev, inp) ==
    IF w.obs.history > 1 THEN save_history(w, ev, inp)
    ELSE [w EXCEPT !.disk = w.disk \cup {BarePath},
                   !.g.firings = Append(w.g.firings, ev.epoch)]

\* A tie with the best cost is saved too (a plausible slip).
SaveBest_is_better_or_equal(cost, best_cost) ==
    best_cost = None \/ ~LessValue(Val(best_cost), cost)

\* _eil['cost'] < self.best_cost or self.best_cost is None
SaveBest_is_better(cost, best_cost) ==
    best_cost = None \/ LessValue(cost, Val(best_cost))

\* SaveBestStateCallback.on_epoch_end
SaveBest_on_epoch_end(w, ev, inp) ==
    LET eil == get_cached_epoch_loss(w.cd, ev.epoch)
        w1 == IF eil.avail
              THEN [w EXCEPT !.g.losses_seen = w.g.losses_seen \cup {eil.cost[1]},
                             !.g.sb_lookups = w.g.sb_lookups + 1]
              ELSE w
    IN  IF eil.avail /\ SaveBest_is_better(eil.cost, w.obs.best_cost)
        THEN [w1 EXCEPT !.obs.best_cost = eil.cost[1],
                        !.g.best_saves = Append(w.g.best_saves, eil.cost[1])]
        ELSE w1

\* The fold state is kept, not replaced by what the stop function returned
\* (a plausible slip).
EarlyStop_next_state_kept(stop_state, returned) == stop_state

\* self.stop_state, finished = self.stop_func(self.stop_state, _eil['cost'])
EarlyStop_next_state(stop_state, returned) == returned

\* The flag takes whatever the stop function returned (a plausible slip).
EarlyStop_flag_assigned(finished_before, finished) == finished

\* if finished: self.model.finished = True
EarlyStop_flag(finished_before, finished) == finished_before \/ finished

\* EarlyStopCallback.on_epoch_end
EarlyStop_on_epoch_end(w, ev, inp) ==
    LET eil == get_cached_epoch_loss(w.cd, ev.epoch)
    IN  IF eil.avail
        THEN [w EXCEPT !.obs.stop_state = EarlyStop_next_state(w.obs.stop_state, inp.stop_state),
                       !.g.fold_ok = w.g.fold_ok /\ w.obs.stop_state = w.g.last_ret,
                       !.g.last_ret = inp.stop_state,
                       !.model.finished = EarlyStop_flag(w.model.finished, inp.finished),
                       !.g.stop_calls = w.g.stop_calls + 1,
                       !.g.stop_calls_after =
                           w.g.stop_calls_after + (IF w.g.signalled THEN 1 ELSE 0),
                       !.g.signalled = w.g.signalled \/ inp.finished,
                       !.g.finished_sets = w.g.finished_sets + (IF inp.finished THEN 1 ELSE 0)]
        ELSE w

\* The series of the layer is allocated with the group (a plausible slip).
Hist_on_train_begin_allocating(w, ev, inp) ==
    LET points == IF w.obs.plot_per_mini THEN w.cd.total_minibatches ELSE ev.epochs
    IN  [w EXCEPT !.obs.minibatches = w.cd.total_minibatches,
                  !.cd.hist = TRUE,
                  !.cd.hist_per_mini = w.obs.plot_per_mini,
                  !.cd.hist_time_steps = points,
                  !.cd.has_hist_W = TRUE,
                  !.cd.hist_W = create_dataset(points)]

\* HistCallback.on_train_begin
Hist_on_train_begin(w, ev, inp) ==
    [w EXCEPT !.obs.minibatches = w.cd.total_minibatches,
              !.cd.hist = TRUE,
              !.cd.hist_per_mini = w.obs.plot_per_mini,
              !.cd.hist_time_steps =
                  IF w.obs.plot_per_mini THEN w.cd.total_minibatches ELSE ev.epochs]

\* HistCallback._save_hist_data, for a model with one weighted layer:
\* require_dataset creates the series of the layer when it is not there yet,
\* then column timestamp is written.
save_hist_data(w, timestamp) ==
    LET points == w.cd.hist_time_steps
        w1 == IF w.cd.has_hist_W THEN w
              ELSE [w EXCEPT !.cd.has_hist_W = TRUE, !.cd.hist_W = create_dataset(points)]
    IN  IF timestamp >= points THEN Raise(w1)
        ELSE [w1 EXCEPT !.cd.hist_W[timestamp + 1] = Val(1)]

\* HistCallback.on_minibatch_end
Hist_on_minibatch_end(w, ev, inp) ==
    IF w.obs.plot_per_mini
    THEN save_hist_data(w, mbstart(w.cd, ev.epoch) + ev.minibatch)
    ELSE w

\* HistCallback.on_epoch_end
Hist_on_epoch_end(w, ev, inp) ==
    IF ~w.obs.plot_per_mini THEN save_hist_data(w, ev.epoch) ELSE w

\* ProgressBarCallback.on_epoch_end: the loss text goes to stdout.
ProgressBar_on_epoch_end(w, ev, inp) ==
    LET eil == get_cached_epoch_loss(w.cd, ev.epoch)
    IN  [w EXCEPT !.g.pb_epochs = w.g.pb_epochs \cup {ev.epoch},
                  !.g.pb_loss_text =
                      IF eil.avail
                      THEN w.g.pb_loss_text \cup {<<ev.epoch, eil.cost, eil.time>>}
                      ELSE w.g.pb_loss_text]

\* TrainLoggerCallback.on_epoch_end: the eval cost goes to the log.
TrainLogger_on_epoch_end(w, ev, inp) ==
    LET eil == get_cached_epoch_loss(w.cd, ev.epoch)
    IN  [w EXCEPT !.g.log_loss_text =
                      IF eil.avail
                      THEN w.g.log_loss_text \cup {<<ev.epoch, eil.cost>>}
                      ELSE w.g.log_loss_text]

\* MetricCallback.on_epoch_end: the statistics of model.eval go to the log;
\* callback_data is not used.
Metric_on_epoch_end(w, ev, inp) ==
    IF PyMod(ev.epoch + 1, inp.self.epoch_freq.n) = 0
    THEN [w EXCEPT !.g.metric_logs = w.g.metric_logs \cup {ev.epoch}]
    ELSE w

\* ProgressBarCallback.on_epoch_begin: the dataset's nbatches is remembered
\* (the two timers are the clock of the elapsed input).
ProgressBar_on_epoch_begin(w, ev, inp) ==
    [w EXCEPT !.obs.pb_nbatches = inp.nbatches]

\* The bar is redrawn only when the update threshold has elapsed (a
\* plausible slip: the end of the epoch is not drawn).
ProgressBar_must_render_elapsed_only(elapsed, mb_complete, nbatches) == elapsed

\* The condition of ProgressBarCallback.on_minibatch_end; elapsed is
\* now - self.last_update > self.update_thresh_s.
ProgressBar_must_render(elapsed, mb_complete, nbatches) ==
    elapsed \/ mb_complete = nbatches

\* The read callback_data['cost/train'][mbstart + minibatch] of the progress
\* bar and of the logger; an index past the series raises.  reads keeps who
\* read which tick, what came back and whether the slot was written in
\* this pass.
read_train_cost(w, ev, who) ==
    LET tick == mbstart(w.cd, ev.epoch) + ev.minibatch
    IN  IF tick >= Len(w.cd.cost_train) THEN Raise(w)
        ELSE [w EXCEPT !.g.reads = w.g.reads \cup
                  {<<who, tick, w.cd.cost_train[tick + 1],
                     <<"cost_train", tick + 1>> \in w.g.pass_written>>}]

\* ProgressBarCallback.on_minibatch_end
ProgressBar_on_minibatch_end(w, ev, inp) ==
    IF ProgressBar_must_render(inp.elapsed, ev.minibatch + 1, w.obs.pb_nbatches)
    THEN LET r == read_train_cost(w, ev, "ProgressBar")
              IN  IF r.raised THEN r ELSE [r EXCEPT !.g.rendered = TRUE]
    ELSE w

\* TrainLoggerCallback.on_minibatch_end
TrainLogger_on_minibatch_end(w, ev, inp) == read_train_cost(w, ev, "TrainLogger")

\* The hook of callback c for event ev; the hooks a class does not override
\* are the no-ops of the Callback base class, and the other hooks of the
\* progress bar, the logger and the metric callback write to stdout and the
\* log only.
Hook(c, w, ev, inp) ==
    LET i == [inp EXCEPT !.self = c]
    IN  CASE c.kind = "TrainCost" /\ ev.name = "train_begin" -> TrainCost_on_train_begin(w, ev, i)
          [] c.kind = "TrainCost" /\ ev.name = "minibatch_end" -> TrainCost_on_minibatch_end(w, ev, i)
          [] c.kind = "Loss" /\ ev.name = "train_begin" -> Loss_on_train_begin(w, ev, i)
          [] c.kind = "Loss" /\ ev.name = "epoch_end" -> Loss_on_epoch_end(w, ev, i)
          [] c.kind = "Metric" /\ ev.name = "epoch_end" -> Metric_on_epoch_end(w, ev, i)
          [] c.kind = "Serialize" /\ ev.name = "epoch_end" -> Serialize_on_epoch_end(w, ev, i)
          [] c.kind = "SaveBest" /\ ev.name = "epoch_end" -> SaveBest_on_epoch_end(w, ev, i)
          [] c.kind = "EarlyStop" /\ ev.name = "epoch_end" -> EarlyStop_on_epoch_end(w, ev, i)
          [] c.kind = "ProgressBar" /\ ev.name = "epoch_begin" -> ProgressBar_on_epoch_begin(w, ev, i)
          [] c.kind = "ProgressBar" /\ ev.name = "minibatch_end" -> ProgressBar_on_minibatch_end(w, ev, i)
          [] c.kind = "ProgressBar" /\ ev.name = "epoch_end" -> ProgressBar_on_epoch_end(w, ev, i)
          [] c.kind = "TrainLogger" /\ ev.name = "minibatch_end" -> TrainLogger_on_minibatch_end(w, ev, i)
          [] c.kind = "TrainLogger" /\ ev.name = "epoch_end" -> TrainLogger_on_epoch_end(w, ev, i)
          [] c.kind = "Hist" /\ ev.name = "train_begin" -> Hist_on_train_begin(w, ev, i)
          [] c.kind = "Hist" /\ ev.name = "minibatch_end" -> Hist_on_minibatch_end(w, ev, i)
          [] c.kind = "Hist" /\ ev.name = "epoch_end" -> Hist_on_epoch_end(w, ev, i)
          [] OTHER -> w

----------------------------------------------------------------------------
\* The dispatcher.

Event(name, epoch, minibatch, epochs) ==
    [name |-> name, epoch |-> epoch, minibatch |-> minibatch, epochs |-> epochs]

Input(cost, loss, time, rm_ok, stop_state, finished) ==
    [self |-> TrainCostCallback, cost |-> cost, loss |-> loss, time |-> time,
     rm_ok |-> rm_ok, stop_state |-> stop_state, finished |-> finished,
     elapsed |-> FALSE, nbatches |-> 0]

NoInput == Input(0, 0, 0, TRUE, None, FALSE)

\* The minibatch frequency decides the epoch events and the epoch frequency
\* the minibatch events (a plausible slip).
Fires_swapped(c, ev) ==
    CASE ev.name \in {"train_begin", "train_end"} -> TRUE
      [] ev.name \in {"epoch_begin", "epoch_end"} -> should_fire(ev.epoch, c.minibatch_freq)
      [] OTHER -> should_fire(ev.minibatch, c.epoch_freq)

\* The test in front of each hook call of Callbacks.on_*: none for the train
\* events, c.should_fire(epoch, c.epoch_freq) for the epoch events and
\* c.should_fire(minibatch, c.minibatch_freq) for the minibatch events.
Fires(c, ev) ==
    CASE ev.name \in {"train_begin", "train_end"} -> TRUE
      [] ev.name \in {"epoch_begin", "epoch_end"} -> should_fire(ev.epoch, c.epoch_freq)
      [] OTHER -> should_fire(ev.minibatch, c.minibatch_freq)

\* The groups and datasets of the store, and whether one is there.
Series == {"minibatch", "cost_train", "cost_loss", "time_loss", "hist_W"}
Namespaces == {"config", "hist"}

Exists(cd, s) ==
    CASE s = "config" -> cd.config
      [] s = "minibatch" -> cd.time_markers
      [] s = "cost_train" -> cd.has_cost_train
      [] s \in {"cost_loss", "time_loss"} -> cd.has_cost_loss
      [] s = "hist" -> cd.hist
      [] s = "hist_W" -> cd.has_hist_W

\* The callbacks whose on_epoch_end starts with _get_cached_epoch_loss.
Readers == {"ProgressBar", "TrainLogger", "SaveBest", "EarlyStop"}

\* History of a hook call, taken when the hook is entered: its position in
\* the list, whether a train-begin hook finds the config attributes and the
\* marker series, and whether the slot an epoch-end lookup reads was written
\* earlier in the same pass.
Called(c, i, w, ev) ==
    LET eil == get_cached_epoch_loss(w.cd, ev.epoch)
        slot == PyDiv(ev.epoch, w.cd.epoch_freq) + 1
        fresh == {<<"cost_loss", slot>>, <<"time_loss", slot>>} \subseteq w.g.pass_written
        ready == /\ w.cd.config
                 /\ w.cd.total_minibatches # None
                 /\ w.cd.total_epochs # None
                 /\ w.cd.time_markers
                 /\ Len(w.cd.minibatch) = ev.epochs
    IN  [w EXCEPT !.g.last_calls = Append(w.g.last_calls, i),
                  !.g.begin_ready =
                      IF ev.name = "train_begin" THEN w.g.begin_ready /\ ready
                      ELSE w.g.begin_ready,
                  !.g.lookups =
                      IF ev.name = "epoch_end" /\ c.kind \in Readers /\ eil.avail
                      THEN w.g.lookups \cup {<<c.kind, fresh>>}
                      ELSE w.g.lookups]

\* History of what a step of `who` did to the store between w0 and w1: the
\* groups and datasets it created, the datasets whose slots it changed, the
\* datasets whose length it changed, and whether it changed anything at all.
Observe(who, w0, w1, ev) ==
    LET base(s) == IF Exists(w0.cd, s) THEN w0.cd[s] ELSE create_dataset(Len(w1.cd[s]))
        made == {s \in Series \cup Namespaces : ~Exists(w0.cd, s) /\ Exists(w1.cd, s)}
        resized == {s \in Series : Exists(w0.cd, s) /\ Len(w0.cd[s]) # Len(w1.cd[s])}
        changed(s) == {k \in 1..Len(w1.cd[s]) :
                          Exists(w1.cd, s) /\ k <= Len(base(s)) /\ w1.cd[s][k] # base(s)[k]}
        slots == UNION {{<<s, k>> : k \in changed(s)} : s \in Series}
    IN  [w1 EXCEPT !.g.touched = IF w1.cd = w0.cd THEN w1.g.touched
                                  ELSE w1.g.touched \cup {who},
                   !.g.created = w1.g.created \cup {<<s, who, ev.name>> : s \in made},
                   !.g.written = w1.g.written \cup {<<x[1], who>> : x \in slots},
                   !.g.resized = w1.g.resized \cup resized,
                   !.g.pass_written = w1.g.pass_written \cup slots]

\* for c in self.callbacks: if c.should_fire(...): c.on_*(...)
\* An exception of a hook propagates: the callbacks after it are not called.
\* (Each world is bound as a value, so that it is computed once.)
RECURSIVE Dispatch(_, _, _, _, _)
Dispatch(cbs, i, w, ev, inp) ==
    IF i > Len(cbs) \/ w.raised THEN w
    ELSE IF Fires(cbs[i], ev)
         THEN CHOOSE r \in
                  {Dispatch(cbs, i + 1, w2, ev, inp) :
                     w2 \in {Observe(cbs[i].kind, x[1], x[2], ev) :
                               x \in {<<w0, Hook(cbs[i], w0, ev, inp)>> :
                                        w0 \in {Called(cbs[i], i, w, ev)}}}} : TRUE
         ELSE Dispatch(cbs, i + 1, w, ev, inp)

\* The world a dispatcher method starts from.
World(ev) ==
    [cd |-> callback_data, obs |-> obs, model |-> model, disk |-> disk,
     g |-> [g EXCEPT !.last_calls = <<>>, !.last_event = ev,
                     !.lookups = {}, !.pass_written = {},
                     !.reads = {}, !.rendered = FALSE],
     raised |-> FALSE]

\* The store is flushed before the hooks run (a plausible slip).
flush_before_hooks(w_begin, w_end) == [file |-> TRUE, cd |-> w_begin.cd]

\* self.callback_data.flush() as the last statement of on_epoch_end: the file
\* holds what the store holds when the method returns.
flush(w_begin, w_end) == [file |-> TRUE, cd |-> w_end.cd]

\* A store on the core driver without backing store has no file.
NoFile == [file |-> FALSE, cd |-> EmptyStore]

\* The world a dispatcher method leaves behind.
Commit(w) ==
    /\ callback_data' = w.cd
    /\ obs' = w.obs
    /\ model' = w.model
    /\ disk' = w.disk
    /\ g' = w.g

----------------------------------------------------------------------------
\* Configurations: the arguments of Callbacks.__init__, the dataset and
\* backend sizes, the most minibatches the loop runs in an epoch, the window
\* of the cost callback and the values the model and the evaluation return.

BaseCfg ==
    [ndata |-> 1, bsz |-> 1, epochs |-> 1, max_mb |-> MaxMB,
     wsz |-> DefaultWsz, output_file |-> TRUE,
     progress_bar |-> FALSE, eval_freq |-> 0, eval_set |-> FALSE, metric |-> FALSE,
     save_path |-> FALSE, serialize |-> 0, history |-> 1,
     costs |-> {1}, losses |-> {1}, nbatches |-> MaxMB, elapsed |-> {FALSE}]

\* Every optional callback of the default registration, switched on and off.
Configs ==
    {[BaseCfg EXCEPT !.epochs = e, !.progress_bar = pb, !.eval_freq = ev[1],
                     !.eval_set = ev[2], !.metric = ev[3], !.save_path = sp,
                     !.serialize = 2, !.history = 2] :
        e \in 1..MaxEpochs, pb \in BOOLEAN, sp \in BOOLEAN,
        ev \in {<<0, FALSE, FALSE>>, <<1, TRUE, FALSE>>, <<2, TRUE, FALSE>>,
                <<2, TRUE, TRUE>>, <<1, FALSE, FALSE>>}}

\* Checkpoint writer alone: every retention count and serialization interval.
CkptConfigs ==
    {[BaseCfg EXCEPT !.epochs = e, !.save_path = TRUE, !.serialize = s, !.history = h] :
        e \in 1..MaxCkptEpochs, s \in 0..MaxSerialize, h \in 0..MaxHistory}

\* Evaluation loss at every frequency, with several loss values.
LossConfigs ==
    {[BaseCfg EXCEPT !.epochs = e, !.eval_freq = f, !.eval_set = TRUE,
                     !.losses = LossValues] :
        e \in 1..MaxLossEpochs, f \in 1..MaxEvalFreq}

\* Cost tracker with small windows and several cost values; the dataset
\* holds as many batches as an epoch may run.
CostConfigs ==
    {[BaseCfg EXCEPT !.ndata = MaxMB, !.epochs = e, !.wsz = w, !.costs = CostValues] :
        e \in 1..MaxCostEpochs, w \in 1..MaxWsz}

\* Progress bar and logger with the loss callback or no evaluation at all,
\* over runs long enough for epochs 0..4; one minibatch an epoch.
LookupConfigs ==
    {[BaseCfg EXCEPT !.epochs = e, !.max_mb = 1, !.progress_bar = TRUE,
                     !.eval_freq = f, !.eval_set = TRUE, !.losses = LossValues] :
        e \in 1..MaxLookupEpochs, f \in 0..MaxEvalFreq}

\* A store with and without an output file, with and without the loss
\* callback.
FlushConfigs ==
    {[BaseCfg EXCEPT !.ndata = MaxMB, !.epochs = e, !.output_file = o,
                     !.eval_freq = f, !.eval_set = TRUE] :
        e \in 1..MaxFlushEpochs, o \in BOOLEAN, f \in 0..MaxFlushFreq}

\* The default callbacks with and without the loss callback, for the
\* histogram callback to join.
HistConfigs ==
    {[BaseCfg EXCEPT !.ndata = MaxMB, !.epochs = e, !.eval_freq = f, !.eval_set = TRUE] :
        e \in 1..MaxHistEpochs, f \in 0..MaxHistFreq}

\* Dataset sizes, batch sizes and epoch counts, with and without the
\* progress bar and the loss callback; one minibatch an epoch.
BeginConfigs ==
    {[BaseCfg EXCEPT !.ndata = n, !.bsz = b, !.epochs = e, !.max_mb = 1,
                     !.progress_bar = pb, !.eval_freq = f, !.eval_set = TRUE] :
        n \in 1..MaxNdata, b \in 1..MaxBsz, e \in 1..MaxBeginEpochs,
        pb \in BOOLEAN, f \in 0..MaxBeginFreq}

\* The loss callback at several frequencies, for the early-stop callback to
\* join, over runs long enough for two losses at frequency 2; one minibatch
\* an epoch.
StopConfigs ==
    {[BaseCfg EXCEPT !.epochs = e, !.max_mb = 1, !.eval_freq = f, !.eval_set = TRUE] :
        e \in 1..MaxStopEpochs, f \in 1..MaxStopFreq}

\* Every argument combination of Callbacks.__init__, the epoch count left
\* out (None) or 0 included.
ConstructConfigs ==
    {[BaseCfg EXCEPT !.epochs = e, !.progress_bar = pb, !.eval_freq = f,
                     !.eval_set = es, !.metric = m, !.save_path = sp,
                     !.serialize = sz, !.history = 2] :
        e \in {None} \cup 0..MaxConstructEpochs, pb \in BOOLEAN, sp \in BOOLEAN,
        f \in 0..MaxConstructFreq, es \in BOOLEAN, m \in BOOLEAN, sz \in 0..MaxSerialize}

\* Whole epochs: the training set has ndata items, every epoch runs its
\* nbatches = ceil(ndata / bsz) minibatches, and the progress bar's timer is
\* free.
WholeEpochConfigs ==
    {[BaseCfg EXCEPT !.ndata = n, !.bsz = b, !.epochs = e, !.progress_bar = TRUE,
                     !.max_mb = CeilDiv(n, b), !.nbatches = CeilDiv(n, b),
                     !.elapsed = BOOLEAN] :
        n \in 1..MaxWholeNdata, b \in 1..MaxWholeBsz, e \in 1..MaxWholeEpochs}

NoEvent == Event("none", 0, 0, 0)

InitFor(cs) ==
    /\ cfg \in cs
    /\ pc = IF ConstructRaises(cfg) THEN "config_error"
            ELSE IF ConstructTypeError(cfg) THEN "type_error"
            ELSE "constructed"
    /\ callbacks = IF ConstructRaises(cfg) \/ ConstructTypeError(cfg) THEN <<>>
                   ELSE Construct(cfg)
    /\ cur_epoch = 0
    /\ cur_mb = 0
    /\ callback_data = EmptyStore
    /\ obs = [wsz |-> cfg.wsz, cost_history |-> <<>>,
              history |-> cfg.history, checkpoint_files |-> <<>>,
              best_cost |-> None, stop_state |-> None,
              plot_per_mini |-> FALSE, minibatches |-> None, pb_nbatches |-> Unset]
    /\ model = [finished |-> FALSE]
    /\ disk = {}
    /\ epoch_marker = 0
    /\ epoch_minibatches = Unset
    /\ g = [all_costs |-> <<>>, firings |-> <<>>, evicted |-> <<>>, rm_failed |-> FALSE,
            mb_ends |-> 0, cum_at_end |-> <<>>, passes_done |-> 0, late_epoch_ends |-> 0,
            stop_calls |-> 0, signalled |-> FALSE,
            stop_calls_after |-> 0, finished_sets |-> 0,
            best_saves |-> <<>>, losses_seen |-> {}, sb_lookups |-> 0,
            last_event |-> NoEvent, last_calls |-> <<>>,
            lookups |-> {}, pass_written |-> {}, begin_ready |-> TRUE,
            created |-> {}, written |-> {}, resized |-> {}, touched |-> {}, evals |-> 0,
            flushed |-> IF cfg.output_file THEN [file |-> TRUE, cd |-> EmptyStore] ELSE NoFile,
            fold_ok |-> TRUE, last_ret |-> None,
            pb_epochs |-> {}, pb_loss_text |-> {}, log_loss_text |-> {},
            reads |-> {}, rendered |-> FALSE, metric_logs |-> {}, ticks |-> <<>>]

NoCall == [time |-> 0, freq |-> NoneFreq, result |-> "none"]

Init == InitFor(Configs) /\ sf = NoCall
InitCkpt == InitFor(CkptConfigs) /\ sf = NoCall
InitLoss == InitFor(LossConfigs) /\ sf = NoCall
InitCost == InitFor(CostConfigs) /\ sf = NoCall
InitLookup == InitFor(LookupConfigs) /\ sf = NoCall
InitFlush == InitFor(FlushConfigs) /\ sf = NoCall
InitHist == InitFor(HistConfigs) /\ sf = NoCall
InitBegin == InitFor(BeginConfigs) /\ sf = NoCall
InitStop == InitFor(StopConfigs) /\ sf = NoCall
InitConstruct == InitFor(ConstructConfigs) /\ sf = NoCall
InitWholeEpochs == InitFor(WholeEpochConfigs) /\ sf = NoCall

----------------------------------------------------------------------------
\* Operations.

\* Callbacks.add_save_best_state_callback
AddSaveBestStateCallback ==
    /\ pc = "constructed"
    /\ ~HasKind(callbacks, "SaveBest")
    /\ callbacks' = add_callback(callbacks, SaveBestStateCallback, None)
    /\ UNCHANGED <<pc, cur_epoch, cur_mb, cfg, callback_data, obs, model, disk,
                   epoch_marker, epoch_minibatches, g, sf>>

\* Callbacks.add_early_stop_callback
AddEarlyStopCallback ==
    /\ pc = "constructed"
    /\ ~HasKind(callbacks, "EarlyStop")
    /\ callbacks' = add_callback(callbacks, EarlyStopCallback, None)
    /\ UNCHANGED <<pc, cur_epoch, cur_mb, cfg, callback_data, obs, model, disk,
                   epoch_marker, epoch_minibatches, g, sf>>

\* Callbacks.add_hist_callback(plot_per_mini)
AddHistCallback ==
    /\ pc = "constructed"
    /\ ~HasKind(callbacks, "Hist")
    /\ \E plot_per_mini \in BOOLEAN :
         /\ callbacks' = Append(callbacks, HistCallback)
         /\ obs' = [obs EXCEPT !.plot_per_mini = plot_per_mini]
    /\ UNCHANGED <<pc, cur_epoch, cur_mb, cfg, callback_data, model, disk,
                   epoch_marker, epoch_minibatches, g, sf>>

\* Callbacks.add_callback(TrainLoggerCallback(minibatch_freq=1)): a text
\* logger that logs every minibatch, appended after the default callbacks.
AddMinibatchLogger ==
    /\ pc = "constructed"
    /\ Len(SelectSeq(callbacks, LAMBDA c : c.kind = "TrainLogger")) < 2
    /\ callbacks' = add_callback(callbacks, Callback("TrainLogger", IntFreq(1), IntFreq(1)), None)
    /\ UNCHANGED <<pc, cur_epoch, cur_mb, cfg, callback_data, obs, model, disk,
                   epoch_marker, epoch_minibatches, g, sf>>

\* Callbacks.on_train_begin(epochs)
OnTrainBegin ==
    /\ pc = "constructed"
    /\ \E ev \in {Event("train_begin", 0, 0, cfg.epochs)} :
       \E w0 \in {World(ev)} :
       \E total_minibatches \in {CeilDiv(cfg.ndata * cfg.epochs, cfg.bsz)} :
       \E w1 \in {Observe("Callbacks", w0,
                          [w0 EXCEPT !.cd.config = TRUE,
                                     !.cd.total_minibatches = total_minibatches,
                                     !.cd.total_epochs = cfg.epochs,
                                     !.cd.time_markers = TRUE,
                                     !.cd.minibatch = create_dataset(cfg.epochs)], ev)} :
       \E w2 \in {Dispatch(callbacks, 1, w1, ev, NoInput)} :
           /\ Commit(w2)
           /\ pc' = IF w2.raised THEN "error" ELSE "train"
    /\ UNCHANGED <<cur_epoch, cur_mb, cfg, callbacks, epoch_marker, epoch_minibatches, sf>>

\* Callbacks.on_epoch_begin(epoch)
OnEpochBegin ==
    /\ pc = "train"
    /\ cur_epoch < cfg.epochs
    /\ \E ev \in {Event("epoch_begin", cur_epoch, 0, cfg.epochs)} :
       \E w1 \in {Dispatch(callbacks, 1, World(ev), ev,
                           [NoInput EXCEPT !.nbatches = cfg.nbatches])} :
           /\ Commit(w1)
           /\ pc' = IF w1.raised THEN "error" ELSE "epoch"
    /\ cur_mb' = 0
    /\ UNCHANGED <<cur_epoch, cfg, callbacks, epoch_marker, epoch_minibatches, sf>>

\* Callbacks.on_minibatch_begin(epoch, minibatch)
OnMinibatchBegin ==
    /\ pc = "epoch"
    /\ cur_mb < cfg.max_mb
    /\ \E ev \in {Event("minibatch_begin", cur_epoch, cur_mb, cfg.epochs)} :
       \E w1 \in {Dispatch(callbacks, 1, World(ev), ev, NoInput)} :
           /\ Commit(w1)
           /\ pc' = IF w1.raised THEN "error" ELSE "minibatch"
    /\ UNCHANGED <<cur_epoch, cur_mb, cfg, callbacks, epoch_marker, epoch_minibatches, sf>>

\* Callbacks.on_minibatch_end(epoch, minibatch)
OnMinibatchEnd ==
    /\ pc = "minibatch"
    /\ \E cost \in cfg.costs, elapsed \in cfg.elapsed :
       \E ev \in {Event("minibatch_end", cur_epoch, cur_mb, cfg.epochs)} :
       \E w0 \in {World(ev)} :
       \E w1 \in {Dispatch(callbacks, 1, [w0 EXCEPT !.g.mb_ends = w0.g.mb_ends + 1], ev,
                           [Input(cost, 0, 0, TRUE, None, FALSE)
                                EXCEPT !.elapsed = elapsed])} :
           /\ Commit(w1)
           /\ pc' = IF w1.raised THEN "error" ELSE "epoch"
           /\ epoch_minibatches' = IF w1.raised THEN epoch_minibatches ELSE cur_mb + 1
    /\ cur_mb' = cur_mb + 1
    /\ UNCHANGED <<cur_epoch, cfg, callbacks, epoch_marker, sf>>

\* Callbacks.on_epoch_end(epoch), called after at least min_mb minibatches.
\* Reading self.epoch_minibatches before any on_minibatch_end assigned it
\* raises AttributeError, after the callbacks' hooks have run.
OnEpochEnd(min_mb) ==
    /\ pc = "epoch"
    /\ cur_mb >= min_mb
    /\ \E loss \in cfg.losses, rm_ok \in BOOLEAN, stop_state \in 0..1, finished \in BOOLEAN :
       \E ev \in {Event("epoch_end", cur_epoch, 0, cfg.epochs)} :
       \E w0 \in {World(ev)} :
       \E w1 \in {Dispatch(callbacks, 1,
                           [w0 EXCEPT !.g.late_epoch_ends =
                                w0.g.late_epoch_ends + (IF model.finished THEN 1 ELSE 0)],
                           ev, Input(0, loss, 1, rm_ok, stop_state, finished))} :
       \E raised \in {w1.raised \/ epoch_minibatches = Unset} :
       \E marker \in {epoch_marker + epoch_minibatches} :
       \E w2 \in {IF w1.raised THEN w1
                  ELSE [w1 EXCEPT !.g.passes_done = w1.g.passes_done + 1]} :
       \E w3 \in {IF raised THEN w2
                  ELSE Observe("Callbacks", w2,
                           [w2 EXCEPT !.g.cum_at_end = Append(w2.g.cum_at_end, w2.g.mb_ends),
                                      !.cd.minibatch[cur_epoch + 1] = Val(marker),
                                      !.cd.epochs_complete = cur_epoch + 1,
                                      !.cd.minibatches_complete = marker], ev)} :
       \E w4 \in {IF raised \/ ~cfg.output_file THEN w3
                  ELSE [w3 EXCEPT !.g.flushed = flush(w0, w3)]} :
           /\ Commit(w4)
           /\ pc' = IF raised THEN "error" ELSE "train"
           /\ epoch_marker' = IF raised THEN epoch_marker ELSE marker
           /\ cur_epoch' = IF raised THEN cur_epoch ELSE cur_epoch + 1
    /\ UNCHANGED <<cur_mb, cfg, callbacks, epoch_minibatches, sf>>

\* Callbacks.on_train_end(): the hooks, then self.callback_data.close(),
\* which writes the file out.
OnTrainEnd ==
    /\ pc = "train"
    /\ \E ev \in {Event("train_end", 0, 0, cfg.epochs)} :
       \E w1 \in {Dispatch(callbacks, 1, World(ev), ev, NoInput)} :
       \E w2 \in {IF w1.raised THEN w1 ELSE [w1 EXCEPT !.cd.closed = TRUE]} :
       \E w3 \in {IF w1.raised \/ ~cfg.output_file THEN w2
                  ELSE [w2 EXCEPT !.g.flushed = [file |-> TRUE, cd |-> w2.cd]]} :
           /\ Commit(w3)
           /\ pc' = IF w1.raised THEN "error" ELSE "ended"
    /\ UNCHANGED <<cur_epoch, cur_mb, cfg, callbacks, epoch_marker, epoch_minibatches, sf>>

\* The training loop calls the hooks in this order: train begin, then for
\* each epoch (every epoch runs at least one minibatch) epoch begin, the
\* minibatches, epoch end, and at last train end.
Next ==
    \/ AddSaveBestStateCallback
    \/ AddEarlyStopCallback
    \/ OnTrainBegin
    \/ OnEpochBegin
    \/ OnMinibatchBegin
    \/ OnMinibatchEnd
    \/ OnEpochEnd(1)
    \/ OnTrainEnd

\* The same loop around the default callbacks alone.
NextDefault ==
    \/ OnTrainBegin
    \/ OnEpochBegin
    \/ OnMinibatchBegin
    \/ OnMinibatchEnd
    \/ OnEpochEnd(1)
    \/ OnTrainEnd

\* A loop that may also end an epoch in which no minibatch ran.
NextAnyLoop ==
    \/ AddSaveBestStateCallback
    \/ AddEarlyStopCallback
    \/ OnTrainBegin
    \/ OnEpochBegin
    \/ OnMinibatchBegin
    \/ OnMinibatchEnd
    \/ OnEpochEnd(0)
    \/ OnTrainEnd

\* The loop around the default callbacks and the best-state saver.
NextLookup ==
    \/ AddSaveBestStateCallback
    \/ OnTrainBegin
    \/ OnEpochBegin
    \/ OnMinibatchBegin
    \/ OnMinibatchEnd
    \/ OnEpochEnd(1)
    \/ OnTrainEnd

\* The loop around the default callbacks and the histogram callback.
NextHist ==
    \/ AddHistCallback
    \/ OnTrainBegin
    \/ OnEpochBegin
    \/ OnMinibatchBegin
    \/ OnMinibatchEnd
    \/ OnEpochEnd(1)
    \/ OnTrainEnd

\* The loop around the default callbacks and the early-stop callback.
NextStop ==
    \/ AddEarlyStopCallback
    \/ OnTrainBegin
    \/ OnEpochBegin
    \/ OnMinibatchBegin
    \/ OnMinibatchEnd
    \/ OnEpochEnd(1)
    \/ OnTrainEnd

\* Construction and the add-on registrations alone.
NextConstruct ==
    \/ AddSaveBestStateCallback
    \/ AddEarlyStopCallback
    \/ AddHistCallback

\* The loop runs every epoch to its last minibatch.
NextWholeEpochs ==
    \/ AddMinibatchLogger
    \/ OnTrainBegin
    \/ OnEpochBegin
    \/ OnMinibatchBegin
    \/ OnMinibatchEnd
    \/ OnEpochEnd(cfg.max_mb)
    \/ OnTrainEnd

Spec == Init /\ [][Next]_vars
SpecCkpt == InitCkpt /\ [][Next]_vars
SpecLoss == InitLoss /\ [][Next]_vars
SpecCost == InitCost /\ [][NextDefault]_vars
SpecAnyLoop == Init /\ [][NextAnyLoop]_vars
SpecLookup == InitLookup /\ [][NextLookup]_vars
SpecFlush == InitFlush /\ [][NextDefault]_vars
SpecHist == InitHist /\ [][NextHist]_vars
SpecBegin == InitBegin /\ [][NextDefault]_vars
SpecStop == InitStop /\ [][NextStop]_vars
SpecConstruct == InitConstruct /\ [][NextConstruct]_vars
SpecWholeEpochs == InitWholeEpochs /\ [][NextWholeEpochs]_vars

----------------------------------------------------------------------------
\* Callback.should_fire on its own: the arguments are drawn from every int
\* near zero, every list of small times and None.

FreqSpecs ==
    {IntFreq(n) : n \in (0 - MaxFreq)..MaxFreq}
        \cup {ListFreq(S) : S \in SUBSET (0..MaxListTick)}
        \cup {NoneFreq}

InitFire ==
    /\ InitFor({BaseCfg})
    /\ \E t \in 0..MaxTick, f \in FreqSpecs : sf = [time |-> t, freq |-> f, result |-> "none"]

\* self.should_fire(time, freq)
CallShouldFire ==
    /\ sf.result = "none"
    /\ sf' = [sf EXCEPT !.result =
                 IF should_fire_raises(sf.time, sf.freq) THEN "ZeroDivisionError"
                 ELSE IF should_fire(sf.time, sf.freq) THEN "True" ELSE "False"]
    /\ UNCHANGED <<pc, cur_epoch, cur_mb, cfg, callbacks, callback_data, obs, model,
                   disk, epoch_marker, epoch_minibatches, g>>

NextFire == CallShouldFire

SpecFire == InitFire /\ [][NextFire]_vars

----------------------------------------------------------------------------
\* Properties.

Range(s) == {s[i] : i \in 1..Len(s)}
Increasing(s) == \A i, j \in 1..Len(s) : i < j => s[i] < s[j]
Decreasing(s) == \A i, j \in 1..Len(s) : i < j => s[i] > s[j]
SetMin(S) == CHOOSE x \in S : \A y \in S : x <= y

\* C1: with retention count R > 1, after the checkpoint writer has fired on M
\* epochs the files on disk are exactly those of the min(M, R) most recent
\* firing epochs (no delete having failed).
C1_DiskHoldsLastR ==
    (obs.history > 1 /\ ~g.rm_failed) =>
        disk = Range(LastN(g.firings, Min(Len(g.firings), obs.history)))

\* C2: after every firing of the checkpoint writer the filename queue is no
\* longer than the retention count, is in increasing epoch order, and what
\* the firings removed were the oldest entries, oldest first.
C2_QueueWithinRetention ==
    obs.history > 1 =>
        /\ Len(obs.checkpoint_files) <= obs.history
        /\ Increasing(obs.checkpoint_files)
        /\ g.evicted \o obs.checkpoint_files = g.firings

\* Slot k of the loss series holds a written value exactly when the epoch-end
\* pass of epoch (k+1)*F - 1 is done.
LossSlotsFollowEpochs ==
    \A k \in 0..(Len(callback_data.cost_loss) - 1) :
        IsWritten(callback_data.cost_loss[k + 1])
            <=> g.passes_done >= (k + 1) * callback_data.epoch_freq

C4_WindowMean ==
    callback_data.has_cost_train =>
        /\ \A t \in 0..(Len(callback_data.cost_train) - 1) :
             IsWritten(callback_data.cost_train[t + 1]) =>
                 /\ t + 1 <= Len(g.all_costs)
                 /\ LET w == Min(cfg.wsz, callback_data.total_minibatches)
                        n == Min(w, t + 1)
                        v == callback_data.cost_train[t + 1]
                    IN  v[1] * n = Sum(SubSeq(g.all_costs, t + 2 - n, t + 1)) * v[2]
        /\ pc # "error" =>
             \A t \in 0..(Len(g.all_costs) - 1) : IsWritten(callback_data.cost_train[t + 1])

C4_Witness ==
    /\ pc = "epoch"
    /\ cur_epoch >= 1
    /\ cur_mb >= 1
    /\ obs.wsz = 2
    /\ Len(g.all_costs) >= 4
    /\ g.all_costs[Len(g.all_costs)] # g.all_costs[Len(g.all_costs) - 1]

\* C5: once the stop function has returned shouldStop = true the model's
\* finished flag is true in every later state, whatever is called afterwards
\* and whatever the stop function returns afterwards.
C5_FinishedStays == g.signalled => model.finished

C5_Witness ==
    /\ g.signalled
    /\ g.late_epoch_ends >= 1
    /\ g.stop_calls > g.finished_sets
    /\ g.stop_calls_after >= 1

C7_BestIsStrictMin ==
    /\ Decreasing(g.best_saves)
    /\ (g.losses_seen = {} <=> obs.best_cost = None)
    /\ (g.losses_seen = {} <=> g.best_saves = <<>>)
    /\ (g.losses_seen # {} =>
           /\ obs.best_cost = SetMin(g.losses_seen)
           /\ obs.best_cost = g.best_saves[Len(g.best_saves)])

C7_Witness ==
    /\ Len(g.best_saves) >= 2
    /\ g.sb_lookups > Len(g.best_saves)

\* C8: after on_epoch_end(epoch) has returned, marker[epoch] is the number of
\* on_minibatch_end calls made in epochs 0..epoch, and the markers are
\* non-decreasing, also when an epoch ran no minibatch.
C8_MarkerIsCumulativeCount ==
    callback_data.time_markers =>
        /\ \A e \in 1..Len(g.cum_at_end) :
             /\ IsWritten(callback_data.minibatch[e])
             /\ callback_data.minibatch[e][1] = g.cum_at_end[e]
        /\ \A e \in 2..Len(g.cum_at_end) :
             callback_data.minibatch[e - 1][1] <= callback_data.minibatch[e][1]

\* t + 1 is a multiple of n.
Divides(n, t) == \E k \in (0 - (t + 1))..(t + 1) : k * n = t + 1

\* C9 as stated: should_fire returns true exactly when freq is a positive
\* int N with (time+1) mod N = 0 or a list holding time, and false in every
\* other case.
C9_ShouldFirePositiveOnly ==
    sf.result # "none" =>
        LET fires == \/ (sf.freq.type = "int" /\ sf.freq.n > 0 /\ Divides(sf.freq.n, sf.time))
                     \/ (sf.freq.type = "list" /\ sf.time \in sf.freq.ticks)
        IN  sf.result = IF fires THEN "True" ELSE "False"

\* C9 amended: should_fire returns true exactly when freq is a non-zero int N
\* (negative ones too) dividing time+1 or a list holding time; it raises
\* ZeroDivisionError for the int 0; it returns false for None and otherwise.
C9_ShouldFireNonZero ==
    sf.result # "none" =>
        LET fires == \/ (sf.freq.type = "int" /\ sf.freq.n # 0 /\ Divides(sf.freq.n, sf.time))
                     \/ (sf.freq.type = "list" /\ sf.time \in sf.freq.ticks)
        IN  sf.result = IF sf.freq.type = "int" /\ sf.freq.n = 0 THEN "ZeroDivisionError"
                        ELSE IF fires THEN "True" ELSE "False"

C9_Witness ==
    /\ sf.result = "True"
    /\ sf.freq.type = "int"
    /\ sf.freq.n < -1

\* The callbacks the dispatcher has to call for the last event.
Expected(i) ==
    CASE g.last_event.name \in {"train_begin", "train_end"} -> TRUE
      [] g.last_event.name \in {"epoch_begin", "epoch_end"} ->
            should_fire(g.last_event.epoch, callbacks[i].epoch_freq)
      [] OTHER -> should_fire(g.last_event.minibatch, callbacks[i].minibatch_freq)

\* C10: every event call that returns has invoked the matching hook on
\* exactly the callbacks whose frequency fires (all of them for train begin
\* and end), each once, in list order; a call that a hook aborted has done so
\* for the callbacks up to that hook.
C10_DispatchInOrder ==
    g.last_event.name # "none" =>
        /\ Increasing(g.last_calls)
        /\ Range(g.last_calls) \subseteq {i \in 1..Len(callbacks) : Expected(i)}
        /\ \A i \in 1..Len(callbacks) :
             (Expected(i) /\ (pc # "error" \/ \E j \in Range(g.last_calls) : i < j))
                 => i \in Range(g.last_calls)

C10_Witness ==
    /\ pc = "train"
    /\ g.last_event.name = "epoch_end"
    /\ Len(g.last_calls) >= 3
    /\ \E i \in 1..Len(callbacks) :
         callbacks[i].kind = "Serialize" /\ i \notin Range(g.last_calls)
    /\ \E i \in 1..Len(callbacks) :
         callbacks[i].kind = "Loss" /\ i \in Range(g.last_calls)

\* C11: in an epoch-end pass, every lookup of the cached epoch loss that the
\* progress bar, the logger, the best-state saver or the early-stop callback
\* makes at a slot boundary of the loss series reads a slot (cost and time)
\* that the loss callback wrote earlier in the same pass.
C11_LookupsReadFreshSlot ==
    \A l \in g.lookups : l[1] \in Readers /\ l[2]

C11_Witness ==
    /\ pc = "train"
    /\ g.last_event.name = "epoch_end"
    /\ g.lookups = {<<k, TRUE>> : k \in Readers}
    /\ cfg.eval_freq = 2

\* The kinds of the first n callbacks.
Kinds(cbs, n) == [i \in 1..n |-> cbs[i].kind]

\* The order the claim gives for the default registration.
DefaultOrder ==
    (IF cfg.eval_freq # 0 /\ ~cfg.metric THEN <<"Loss">> ELSE <<>>)
        \o <<"TrainCost">>
        \o (IF cfg.progress_bar THEN <<"ProgressBar">> ELSE <<>>)
        \o (IF cfg.eval_freq # 0 /\ cfg.metric THEN <<"Metric">> ELSE <<>>)
        \o (IF cfg.save_path THEN <<"Serialize">> ELSE <<>>)
        \o <<"TrainLogger">>

AddOns == {"SaveBest", "EarlyStop", "Hist"}

\* C12: when construction finishes the list holds, in this order, the loss
\* callback (inserted at position 0), the cost callback, the progress bar,
\* the metric callback (appended), the checkpoint writer and the logger, each
\* optional one if it is configured; the logger is the last element, and the
\* add-on registrations only append behind it.
C12_DefaultRegistrationOrder ==
    pc \notin {"config_error", "type_error"} =>
        /\ Len(callbacks) >= Len(DefaultOrder)
        /\ Kinds(callbacks, Len(DefaultOrder)) = DefaultOrder
        /\ \A i \in (Len(DefaultOrder) + 1)..Len(callbacks) : callbacks[i].kind \in AddOns
        /\ callbacks[Len(DefaultOrder)].kind = "TrainLogger"

C12_Witness ==
    /\ pc = "constructed"
    /\ Kinds(callbacks, Len(callbacks)) =
           <<"Loss", "TrainCost", "ProgressBar", "Serialize", "TrainLogger", "EarlyStop">>

\* C13: construction raises the configuration error (ValueError), and
\* registers nothing, exactly when an evaluation frequency comes without an
\* evaluation set, or a save path comes with an epoch count that gives an
\* empty checkpoint schedule (no epoch at all).
C13_ConfigErrorIff ==
    /\ (pc = "config_error") <=>
           \/ (cfg.eval_freq # 0 /\ ~cfg.eval_set)
           \/ (cfg.save_path /\ cfg.epochs # None /\ cfg.epochs <= 0)
    /\ pc = "config_error" => callbacks = <<>>

C13_Witness ==
    /\ pc = "config_error"
    /\ cfg.eval_freq = 0
    /\ cfg.save_path
    /\ cfg.epochs = 0

\* C14: at every epoch whose epoch-end hook of the progress bar ran, the
\* lookup gave nothing when there is no loss series or (epoch + 1) is no
\* multiple of the series' epoch_freq, and else the cost and the time stored
\* at slot epoch / epoch_freq; the callbacks that look up never change the
\* store, and every evaluation is one of the loss callback, which wrote a
\* slot; so with eval_freq 2 there is no loss text at epochs 0, 2 and 4.
C14_LookupReadsBoundarySlot ==
    /\ \A e \in g.pb_epochs :
          LET cd == callback_data
              text == {t \in g.pb_loss_text : t[1] = e}
          IN  IF cd.has_cost_loss /\ (e + 1) % cd.epoch_freq = 0
              THEN text = {<<e, cd.cost_loss[(e \div cd.epoch_freq) + 1],
                             cd.time_loss[(e \div cd.epoch_freq) + 1]>>}
              ELSE text = {}
    /\ g.touched \cap Readers = {}
    /\ g.evals = Cardinality({k \in 1..Len(callback_data.cost_loss) :
                                 IsWritten(callback_data.cost_loss[k])})
    /\ cfg.eval_freq = 2 => \A t \in g.pb_loss_text : t[1] \notin {0, 2, 4}

C14_Witness ==
    /\ cfg.eval_freq = 2
    /\ g.pb_epochs = 0..4
    /\ {t[1] : t \in g.pb_loss_text} = {1, 3}
    /\ \E t \in g.pb_loss_text : t[2] = Val(2)
    /\ HasKind(callbacks, "SaveBest")

\* The store without the train costs written since the last epoch end (the
\* slots behind the minibatches_complete attribute).
WithoutOpenEpoch(cd) ==
    [cd EXCEPT !.cost_train =
        [k \in 1..Len(cd.cost_train) |->
            IF k <= cd.minibatches_complete THEN cd.cost_train[k] ELSE Unwritten]]

\* C15: on_epoch_end flushes last, after the hooks and after the marker and
\* the completion attributes: the file of the store holds nothing before the
\* first epoch end, afterwards everything but the writes made since the last
\* epoch end (the train costs of the open epoch), and everything once the
\* store is closed.  A store without an output file has no file at all.
C15_FileLagsByOpenEpoch ==
    IF cfg.output_file
    THEN /\ g.flushed.file
         /\ g.flushed.cd =
               IF callback_data.closed THEN callback_data
               ELSE IF callback_data.epochs_complete = None THEN EmptyStore
               ELSE WithoutOpenEpoch(callback_data)
    ELSE g.flushed = NoFile

C15_Witness ==
    /\ cfg.output_file
    /\ cfg.eval_freq = 1
    /\ pc = "epoch"
    /\ cur_epoch = 1
    /\ cur_mb = 1
    /\ g.flushed.cd # callback_data
    /\ IsWritten(g.flushed.cd.cost_loss[1])
    /\ IsWritten(g.flushed.cd.minibatch[1])
    /\ g.flushed.cd.epochs_complete = 1

\* Who owns a group or dataset of the store.
Owner(s) ==
    CASE s \in {"config", "minibatch"} -> "Callbacks"
      [] s = "cost_train" -> "TrainCost"
      [] s \in {"cost_loss", "time_loss"} -> "Loss"
      [] s \in {"hist", "hist_W"} -> "Hist"

\* Each group or dataset there is was created once; datasets are written by
\* their owner only and never change their length.
OwnedAndFixed ==
    /\ \A s \in Series \cup Namespaces :
          Exists(callback_data, s) <=> Cardinality({x \in g.created : x[1] = s}) = 1
    /\ \A x \in g.created : x[2] = Owner(x[1])
    /\ \A x \in g.written : x[2] = Owner(x[1])
    /\ g.resized = {}

\* C16 as stated: every group and dataset is created once, during train
\* begin, by its owner, each dataset is written by its owner only, and no
\* dataset is created or resized after train begin.
C16_AllCreatedAtTrainBegin ==
    /\ OwnedAndFixed
    /\ \A x \in g.created : x[3] = "train_begin"

\* C16 amended: as stated for every group and every dataset but a histogram
\* dataset, which the histogram callback creates on its first firing
\* (minibatch end when it plots per minibatch, epoch end otherwise) with the
\* length of its time axis.
C16_CreatedOnceByOwner ==
    /\ OwnedAndFixed
    /\ \A x \in g.created :
          x[3] = IF x[1] # "hist_W" THEN "train_begin"
                 ELSE IF callback_data.hist_per_mini THEN "minibatch_end"
                 ELSE "epoch_end"
    /\ callback_data.has_hist_W =>
          Len(callback_data.hist_W) = callback_data.hist_time_steps

C16_Witness ==
    /\ pc = "ended"
    /\ cfg.epochs = 2
    /\ \A s \in Series \cup Namespaces : Exists(callback_data, s)
    /\ <<"hist_W", "Hist", "epoch_end">> \in g.created
    /\ g.written = {<<s, Owner(s)>> : s \in Series}
    /\ \A k \in 1..2 : IsWritten(callback_data.hist_W[k])

\* C17: whenever the checkpoint writer is about to fire with rotation, the
\* firing in which os.remove fails does not raise and leaves the callback
\* (its queue: oldest name dropped, new name appended) exactly as the firing
\* in which it succeeds, the new checkpoint is on disk in both, and the disks
\* differ only by the file that could not be deleted; over a run, queue and
\* dropped names together are the firings, whatever the deletes did.
C17_FailedDeleteIsIgnored ==
    /\ (pc = "epoch" /\ obs.history > 1 /\ cur_epoch \in checkpoint_schedule(cfg)) =>
          LET ev == Event("epoch_end", cur_epoch, 0, cfg.epochs)
              ok == save_history(World(ev), ev, Input(0, 1, 1, TRUE, None, FALSE))
              ko == save_history(World(ev), ev, Input(0, 1, 1, FALSE, None, FALSE))
              dropped == Range(obs.checkpoint_files) \ Range(ok.obs.checkpoint_files)
          IN  /\ ~ko.raised
              /\ ko.obs = ok.obs
              /\ ok.obs.checkpoint_files =
                    Append(SubSeq(obs.checkpoint_files, Cardinality(dropped) + 1,
                                  Len(obs.checkpoint_files)), cur_epoch)
              /\ cur_epoch \in ko.disk \cap ok.disk
              /\ ok.disk \cap dropped = {}
              /\ ko.disk = ok.disk \cup (dropped \cap disk)
    /\ obs.history > 1 => g.evicted \o obs.checkpoint_files = g.firings

C17_Witness ==
    /\ g.rm_failed
    /\ pc = "train"
    /\ Len(g.evicted) = 1
    /\ g.evicted[1] \in disk
    /\ g.evicted[1] \notin Range(obs.checkpoint_files)
    /\ obs.checkpoint_files[Len(obs.checkpoint_files)] = cur_epoch - 1
    /\ (cur_epoch - 1) \in disk

\* C18: with a history of at most 1 the firings write the configured path
\* and nothing else, delete nothing and leave the queue empty; with a history
\* above 1 every firing at epoch e writes the file named after e (the last
\* firing's file and every file not rotated out are on disk, under the names
\* of firing epochs) and the configured path itself is never written.
C18_PathByHistory ==
    IF obs.history <= 1
    THEN /\ disk = IF g.firings = <<>> THEN {} ELSE {BarePath}
         /\ obs.checkpoint_files = <<>>
         /\ g.evicted = <<>>
         /\ ~g.rm_failed
    ELSE /\ BarePath \notin disk
         /\ disk \subseteq Range(g.firings)
         /\ Range(g.firings) \ Range(g.evicted) \subseteq disk
         /\ g.firings # <<>> =>
               obs.checkpoint_files[Len(obs.checkpoint_files)] = g.firings[Len(g.firings)]

C18_Witness ==
    /\ obs.history = 1
    /\ Len(g.firings) = 3
    /\ disk = {BarePath}
    /\ pc = "ended"

\* C19: once on_train_begin has run, the store holds total_minibatches =
\* ceil(ndata * epochs / bsz) (the least t with t * bsz >= ndata * epochs),
\* total_epochs = epochs and a marker series of epochs slots; every train-begin
\* hook found them in place when it was entered, the hooks ran in list order,
\* and the cost callback sized its series by the recorded total.
C19_TrainBeginSetsUpFirst ==
    callback_data.config =>
        LET t == callback_data.total_minibatches
            a == cfg.ndata * cfg.epochs
        IN  /\ t * cfg.bsz >= a
            /\ (t - 1) * cfg.bsz < a
            /\ callback_data.total_epochs = cfg.epochs
            /\ callback_data.time_markers
            /\ Len(callback_data.minibatch) = cfg.epochs
            /\ g.begin_ready
            /\ g.last_event.name = "train_begin" =>
                  g.last_calls = [i \in 1..Len(callbacks) |-> i]
            /\ callback_data.has_cost_train /\ Len(callback_data.cost_train) = t

C19_Witness ==
    /\ pc = "train"
    /\ g.last_event.name = "train_begin"
    /\ cfg.ndata = 3
    /\ cfg.bsz = 2
    /\ cfg.epochs = 1
    /\ callback_data.total_minibatches = 2
    /\ g.last_calls = <<1, 2, 3, 4>>
    /\ g.begin_ready

\* C20: the stop function was called once for each cached loss (each written
\* slot of the loss series) when the early-stop callback is registered and
\* never otherwise; each call got the state the call before it returned (None
\* at the first) and the callback keeps the state of the last call; and an
\* epoch end at which the lookup gives nothing leaves the callback, the
\* finished flag and the number of calls as they are.
C20_StopFuncFoldsOverLosses ==
    /\ g.stop_calls =
          IF HasKind(callbacks, "EarlyStop")
          THEN Cardinality({k \in 1..Len(callback_data.cost_loss) :
                               IsWritten(callback_data.cost_loss[k])})
          ELSE 0
    /\ g.fold_ok
    /\ obs.stop_state = g.last_ret
    /\ g.stop_calls = 0 => obs.stop_state = None
    /\ (pc = "epoch" /\ ~get_cached_epoch_loss(callback_data, cur_epoch).avail) =>
          \A stop_state \in 0..1, finished \in BOOLEAN :
              LET ev == Event("epoch_end", cur_epoch, 0, cfg.epochs)
                  w1 == EarlyStop_on_epoch_end(World(ev), ev,
                                               Input(0, 1, 1, TRUE, stop_state, finished))
              IN  /\ w1.obs = obs
                  /\ w1.model = model
                  /\ w1.g.stop_calls = g.stop_calls

C20_Witness ==
    /\ cfg.eval_freq = 2
    /\ g.passes_done = 4
    /\ g.stop_calls = 2
    /\ obs.stop_state = 1
    /\ g.stop_calls_after = 1
    /\ model.finished

----------------------------------------------------------------------------
\* C21: in a minibatch-end pass every read of the smoothed train cost by the
\* progress bar or the logger, at the global tick mbstart + minibatch, comes
\* after the cost tracker wrote that tick in the same pass: the value read is
\* the one just written and never an unwritten slot; and the progress bar
\* draws on the last minibatch of an epoch whatever time has elapsed.
C21_ReadsFollowTheWrite ==
    /\ \A r \in g.reads :
          /\ r[4]
          /\ IsWritten(r[3])
          /\ r[3] = callback_data.cost_train[r[2] + 1]
          /\ r[2] = g.mb_ends - 1
    /\ (/\ g.last_event.name = "minibatch_end"
        /\ pc # "error"
        /\ HasKind(callbacks, "ProgressBar")
        /\ g.last_event.minibatch + 1 = obs.pb_nbatches) => g.rendered
    /\ g.rendered => \E r \in g.reads : r[1] = "ProgressBar"

C21_Witness ==
    /\ g.last_event.name = "minibatch_end"
    /\ g.last_event.epoch >= 1
    /\ g.last_event.minibatch >= 1
    /\ g.last_event.minibatch + 1 = obs.pb_nbatches
    /\ {r[1] : r \in g.reads} = {"ProgressBar", "TrainLogger"}
    /\ \A r \in g.reads : r[4] /\ r[2] = g.last_event.epoch * cfg.nbatches + g.last_event.minibatch

----------------------------------------------------------------------------
\* C22: the metric callback never writes to callback_data; when the default
\* registration is given a metric (so no loss callback), the loss series
\* never exists, no lookup of the cached loss finds one, and over the whole
\* run the best-state saver never saves, the early-stop callback never calls
\* its stop function and model.finished is never set.
C22_MetricRunHasNoLoss ==
    /\ "Metric" \notin g.touched
    /\ \A x \in g.created \cup g.written : x[2] # "Metric"
    /\ (cfg.metric /\ cfg.eval_freq # 0) =>
          /\ ~HasKind(callbacks, "Loss")
          /\ ~callback_data.has_cost_loss
          /\ get_cached_epoch_loss(callback_data, g.last_event.epoch) = NoLoss
          /\ g.lookups = {}
          /\ g.best_saves = <<>> /\ obs.best_cost = None
          /\ g.stop_calls = 0 /\ obs.stop_state = None
          /\ g.finished_sets = 0 /\ ~model.finished
          /\ g.pb_loss_text = {} /\ g.log_loss_text = {}

C22_Witness ==
    /\ pc = "ended"
    /\ cfg.metric /\ cfg.epochs >= 2
    /\ HasKind(callbacks, "Metric") /\ HasKind(callbacks, "SaveBest")
    /\ HasKind(callbacks, "EarlyStop") /\ HasKind(callbacks, "ProgressBar")
    /\ 1 \in g.metric_logs /\ 0 \notin g.metric_logs
    /\ g.passes_done = cfg.epochs

----------------------------------------------------------------------------
\* C23: every point write of the cost tracker lands inside its series: when
\* each of the epochs runs ceil(ndata / bsz) minibatches, the tick
\* marker[epoch - 1] + minibatch of every minibatch that ends is below
\* total_minibatches = ceil(ndata * epochs / bsz), the length of cost/train.
C23_EveryTickInsideSeries ==
    (/\ pc = "minibatch"
     /\ cfg.max_mb = CeilDiv(cfg.ndata, cfg.bsz))
        => /\ callback_data.total_minibatches = CeilDiv(cfg.ndata * cfg.epochs, cfg.bsz)
           /\ Len(callback_data.cost_train) = callback_data.total_minibatches
           /\ mbstart(callback_data, cur_epoch) + cur_mb < callback_data.total_minibatches

----------------------------------------------------------------------------
\* C24: when the epochs come in order and each runs its minibatches 0..n-1,
\* n >= 1, before its epoch end, the ticks the cost tracker writes are
\* 0, 1, 2, ... in this order: strictly increasing, without a gap, none
\* twice; and after every epoch end as many ticks are written as the marker
\* of that epoch says.
C24_TicksCountUpFromZero ==
    /\ g.ticks = [i \in 1..Len(g.ticks) |-> i - 1]
    /\ Len(g.ticks) = g.mb_ends - (IF pc = "error" /\ g.last_event.name = "minibatch_end"
                                    THEN 1 ELSE 0)
    /\ \A k \in 1..Len(callback_data.cost_train) :
          IsWritten(callback_data.cost_train[k]) <=> k <= Len(g.ticks)
    /\ (g.last_event.name = "epoch_end" /\ pc = "train") =>
          Read(callback_data.minibatch[g.last_event.epoch + 1])[1] = Len(g.ticks)

C24_Witness ==
    /\ g.last_event.name = "epoch_end" /\ pc = "train"
    /\ cur_epoch = 2
    /\ g.ticks = <<0, 1, 2>>
    /\ Read(callback_data.minibatch[1])[1] = 2
    /\ Read(callback_data.minibatch[2])[1] = 3

----------------------------------------------------------------------------
\* C25: the checkpoint writer of the default registration, with
\* serialization interval N (below 1 counts as 1) over E epochs, fires at
\* exactly the epochs 0, N, 2N, ... below E, an explicit list of ticks, and
\* not where (epoch + 1) mod N = 0: it always fires on epoch 0, and on the
\* last epoch E - 1 only if (E - 1) mod N = 0.
C25_FiresAtMultiplesFromZero ==
    HasKind(callbacks, "Serialize") =>
        LET N == IF cfg.serialize < 1 THEN 1 ELSE cfg.serialize
            due(n) == {e \in 0..(n - 1) : e % N = 0}
        IN  /\ \A i \in 1..Len(callbacks) :
                  callbacks[i].kind = "Serialize" =>
                      callbacks[i].epoch_freq = ListFreq(due(cfg.epochs))
            /\ Increasing(g.firings)
            /\ Range(g.firings) \subseteq due(cfg.epochs)
            /\ due(g.passes_done) \subseteq Range(g.firings)
            /\ g.passes_done >= 1 => 0 \in Range(g.firings)
            /\ g.passes_done = cfg.epochs =>
                  /\ Range(g.firings) = due(cfg.epochs)
                  /\ (cfg.epochs - 1 \in Range(g.firings)) <=> ((cfg.epochs - 1) % N = 0)

C25_Witness ==
    /\ pc = "ended"
    /\ cfg.serialize = 2 /\ cfg.epochs = 4
    /\ g.passes_done = 4
    /\ g.firings = <<0, 2>>

====
